---- MODULE Spec2Model ----
(***************************************************************************)
(* The state-commitment store of crates/pathfinder/src/storage/state.rs:   *)
(* the global_state table (GlobalStateTable), the contract_states table    *)
(* (ContractsStateTable), their migration, and the two Ethereum tables the *)
(* global_state table references and is joined with.                       *)
(*                                                                         *)
(* Every operation is one SQL statement executed on the caller's           *)
(* transaction; an action is one call.  A statement that fails leaves the  *)
(* tables as they were (SQLite undoes a failed statement).                 *)
(***************************************************************************)
EXTENDS Integers, Sequences, FiniteSets

VARIABLES
    tables,                 \* names of the tables that exist in the database
    ethereum_blocks,        \* rows of ethereum_blocks
    ethereum_transactions,  \* rows of ethereum_transactions
    global_state,           \* rows of global_state, in rowid (insertion) order
    contract_states,        \* rows of contract_states
    last,                   \* the last call: its name, arguments and result
    committed               \* the database as committed: what survives the
                            \* transaction and what other connections read

\* tables .. contract_states are the database as the open transaction that
\* every call is given sees it.
vars == <<tables, ethereum_blocks, ethereum_transactions, global_state,
          contract_states, last, committed>>

----------------------------------------------------------------------------
(* Bounds and input domains *)

\* The largest StarkNet block number a call is made with (the smallest is 10).
MaxBlockNumber == 11

\* How many records the out-of-order scenario inserts (blocks 10, 11, 12).
MaxOrdered == 3

\* Width of a stored hash: [u8; 32].
HASH_LEN == 32

DB_VERSION_EMPTY == 0
DB_VERSION_CURRENT == 1

\* The versions migrate is called with: EMPTY, CURRENT and one that is neither.
SchemaVersions == {DB_VERSION_EMPTY, DB_VERSION_CURRENT, DB_VERSION_CURRENT + 1}

\* StarkHash values the calls are made with (0x123, 0x3512234, 0x111, 0x9371,
\* 0xabc, 0xdef: the literals of the tests).
StarknetBlockHashes == {291, 55648820}
StarknetBlockNumbers == 10..MaxBlockNumber
GlobalRoots == {273, 37745}
EthereumLogIndexes == {99, 31004}
ContractStateHashes == {2748, 291}
ContractHashes == {291, 273}
ContractRoots == {3567, 273}

\* Block hash and global root of the i-th record of the out-of-order scenario.
OrderedBlockHash(i) == 290 + i
OrderedGlobalRoot(i) == 272 + i

\* Every field element above.
StarkHashes ==
    StarknetBlockHashes \cup GlobalRoots \cup ContractStateHashes
        \cup ContractHashes \cup ContractRoots
        \cup {OrderedBlockHash(i) : i \in 1..MaxOrdered}
        \cup {OrderedGlobalRoot(i) : i \in 1..MaxOrdered}

----------------------------------------------------------------------------
(* Encodings *)

\* The low n bytes of v, most significant first.
RECURSIVE BeBytes(_, _)
BeBytes(v, n) ==
    IF n = 0 THEN <<>> ELSE Append(BeBytes(v \div 256, n - 1), v % 256)

\* The 32-byte big-endian buffer of every field element the calls are made with.
BeBytes32 == [v \in StarkHashes |-> BeBytes(v, HASH_LEN)]

\* StarkHash::to_be_bytes: the 32-byte big-endian buffer of a field element.
to_be_bytes(v) == BeBytes32[v]

\* The field modulus 2^251 + 17 * 2^192 + 1 as 32 big-endian bytes.
ModulusBytes ==
    [i \in 1..HASH_LEN |->
        IF i = 1 THEN 8 ELSE IF i = 8 THEN 17 ELSE IF i = HASH_LEN THEN 1 ELSE 0]

\* a < b for two byte strings of the same length, as big-endian numbers.
RECURSIVE BytesLess(_, _)
BytesLess(a, b) ==
    IF Len(a) = 0 THEN FALSE
    ELSE IF Head(a) # Head(b) THEN Head(a) < Head(b)
    ELSE BytesLess(Tail(a), Tail(b))

\* The number a big-endian byte string encodes.
RECURSIVE BytesValue(_)
BytesValue(b) ==
    IF Len(b) = 0 THEN 0
    ELSE BytesValue(SubSeq(b, 1, Len(b) - 1)) * 256 + b[Len(b)]

\* b left-padded with zero bytes to 32 bytes.
PadLeft(b) == [i \in 1..(HASH_LEN - Len(b)) |-> 0] \o b

Ok(v) == [status |-> "Ok", error |-> "", context |-> "", value |-> v]
Err(kind) == [status |-> "Err", error |-> kind, context |-> "", value |-> <<>>]

\* .context(c): an error is wrapped with the message c, a success passes.
Context(r, c) == IF r.status = "Err" THEN [r EXCEPT !.context = c] ELSE r

\* StarkHash::from_be_slice: at most 32 bytes, and a value below the modulus.
from_be_slice(b) ==
    IF Len(b) > HASH_LEN THEN Err("Decode")
    ELSE IF ~BytesLess(PadLeft(b), ModulusBytes) THEN Err("Decode")
    ELSE Ok(BytesValue(PadLeft(b)))

\* StarkHash::from_be_bytes: exactly 32 bytes, and a value below the modulus.
from_be_bytes(b) ==
    IF ~BytesLess(b, ModulusBytes) THEN Err("Decode") ELSE Ok(BytesValue(b))

\* An H256 is its 32 bytes; the tests build one by repeating a short pattern.
H256Repeat(a, b) == [i \in 1..HASH_LEN |-> IF i % 2 = 1 THEN a ELSE b]

\* vec_to_h256: the bytes, when there are exactly 32 of them.
vec_to_h256(b) == IF Len(b) # HASH_LEN THEN Err("Decode") ELSE Ok(b)

----------------------------------------------------------------------------
(* The Ethereum tables (the rows global_state references) *)

\* The layer-1 blocks and transactions the calls are made with: a block hash
\* fixes the block's number, a transaction hash its block and index.
EthereumBlocks ==
    { [ethereum_block_hash |-> H256Repeat(171, 202), ethereum_block_number |-> 98123],
      [ethereum_block_hash |-> H256Repeat(38, 125), ethereum_block_number |-> 2003] }

\* The hashes of the two transactions: the first is in block 98123, the second
\* in block 2003.
TxHashA == H256Repeat(222, 250)
TxHashB == H256Repeat(137, 127)

EthereumTransactions ==
    { [ethereum_transaction_hash |-> TxHashA,
       ethereum_transaction_index |-> 14,
       ethereum_block_hash |-> H256Repeat(171, 202)],
      [ethereum_transaction_hash |-> TxHashB,
       ethereum_transaction_index |-> 84,
       ethereum_block_hash |-> H256Repeat(38, 125)] }

EthereumTransactionHashes ==
    {t.ethereum_transaction_hash : t \in EthereumTransactions}

NoArgs == [none |-> TRUE]


\* Whether the table named t exists.
Exists(tabs, t) == t \in tabs

\* A database: its tables and their rows.
DatabaseOf(tabs, blks, txs, gs, cs) ==
    [tables |-> tabs, ethereum_blocks |-> blks, ethereum_transactions |-> txs,
     global_state |-> gs, contract_states |-> cs]

\* Mutant: every statement commits at once.
AfterStatementAutocommit(durable, view) == view

\* The committed database after a statement was executed on the caller's
\* transaction, which leaves the transaction open: the statement's effect is
\* in the transaction's view only.
AfterStatement(durable, view) == durable

----------------------------------------------------------------------------
(* Schema migration *)

\* Mutant: CREATE TABLE IF NOT EXISTS.
CreateTableIfNotExists(tabs, t) ==
    [tables |-> tabs \cup {t}, result |-> Ok(<<>>)]

\* CREATE TABLE t, which fails when the table is already there.
CreateTable(tabs, t) ==
    IF t \in tabs THEN [tables |-> tabs, result |-> Err("TableExists")]
    ELSE [tables |-> tabs \cup {t}, result |-> Ok(<<>>)]

\* Mutant: the CURRENT arm does not return, the table is created again.
MigrateTableFallThrough(tabs, t, from_version) ==
    IF from_version \in {DB_VERSION_EMPTY, DB_VERSION_CURRENT} THEN CreateTable(tabs, t)
    ELSE [tables |-> tabs, result |-> Err("UnknownVersion")]

\* GlobalStateTable::migrate and ContractsStateTable::migrate: one table each.
MigrateTable(tabs, t, from_version) ==
    IF from_version = DB_VERSION_EMPTY THEN CreateTable(tabs, t)
    ELSE IF from_version = DB_VERSION_CURRENT THEN [tables |-> tabs, result |-> Ok(<<>>)]
    ELSE [tables |-> tabs, result |-> Err("UnknownVersion")]

\* Mutant: the contracts state table is migrated also after the global state
\* table's migration failed.
MigrateBothAlways(tabs, from_version) ==
    LET g == MigrateTable(tabs, "global_state", from_version)
        c == MigrateTable(g.tables, "contract_states", from_version)
    IN  [tables |-> c.tables,
         result |-> Context(c.result, "Failed to migrate the contracts state table")]

\* Mutant: only the global state table is migrated.
MigrateGlobalOnly(tabs, from_version) ==
    LET g == MigrateTable(tabs, "global_state", from_version) IN
    [tables |-> g.tables,
     result |-> Context(g.result, "Failed to migrate the global state table")]

\* migrate: the global state table, then (only after success) the contracts
\* state table.
MigrateBoth(tabs, from_version) ==
    LET g == MigrateTable(tabs, "global_state", from_version) IN
    IF g.result.status = "Err"
    THEN [tables |-> g.tables,
          result |-> Context(g.result, "Failed to migrate the global state table")]
    ELSE LET c == MigrateTable(g.tables, "contract_states", from_version) IN
         [tables |-> c.tables,
          result |-> Context(c.result, "Failed to migrate the contracts state table")]

Migrate(from_version) ==
    LET m == MigrateBoth(tables, from_version) IN
    /\ tables' = m.tables
    /\ last' = [op |-> "migrate", args |-> [from_version |-> from_version],
                result |-> m.result]
    /\ UNCHANGED <<ethereum_blocks, ethereum_transactions, global_state,
                   contract_states>>
    /\ committed' = AfterStatement(committed,
                        DatabaseOf(tables', ethereum_blocks', ethereum_transactions',
                                   global_state', contract_states'))

\* The migration of the two Ethereum tables (run by storage::migrate_database
\* on a fresh database).
EthereumMigrate ==
    /\ ~Exists(tables, "ethereum_blocks")
    /\ ~Exists(tables, "ethereum_transactions")
    /\ tables' = tables \cup {"ethereum_blocks", "ethereum_transactions"}
    /\ last' = [op |-> "ethereum::migrate", args |-> NoArgs, result |-> Ok(<<>>)]
    /\ UNCHANGED <<ethereum_blocks, ethereum_transactions, global_state,
                   contract_states>>
    /\ committed' = AfterStatement(committed,
                        DatabaseOf(tables', ethereum_blocks', ethereum_transactions',
                                   global_state', contract_states'))

----------------------------------------------------------------------------
(* The Ethereum tables' inserts *)

\* EthereumBlocksTable::insert of a block not stored yet.
EthereumBlocksInsert(b) ==
    /\ Exists(tables, "ethereum_blocks")
    /\ b \notin ethereum_blocks
    /\ ethereum_blocks' = ethereum_blocks \cup {b}
    /\ last' = [op |-> "EthereumBlocksTable::insert", args |-> NoArgs,
                result |-> Ok(<<>>)]
    /\ UNCHANGED <<tables, ethereum_transactions, global_state, contract_states>>
    /\ committed' = AfterStatement(committed,
                        DatabaseOf(tables', ethereum_blocks', ethereum_transactions',
                                   global_state', contract_states'))

\* EthereumTransactionsTable::insert of a transaction not stored yet, whose
\* block is stored.
EthereumTransactionsInsert(t) ==
    /\ Exists(tables, "ethereum_transactions")
    /\ t \notin ethereum_transactions
    /\ \E b \in ethereum_blocks : b.ethereum_block_hash = t.ethereum_block_hash
    /\ ethereum_transactions' = ethereum_transactions \cup {t}
    /\ last' = [op |-> "EthereumTransactionsTable::insert", args |-> NoArgs,
                result |-> Ok(<<>>)]
    /\ UNCHANGED <<tables, ethereum_blocks, global_state, contract_states>>
    /\ committed' = AfterStatement(committed,
                        DatabaseOf(tables', ethereum_blocks', ethereum_transactions',
                                   global_state', contract_states'))

----------------------------------------------------------------------------
(* GlobalStateTable *)

\* The arguments of GlobalStateTable::insert.
GlobalStateInputs ==
    [block_number : StarknetBlockNumbers,
     block_hash : StarknetBlockHashes,
     global_root : GlobalRoots,
     eth_transaction : EthereumTransactionHashes,
     eth_log_index : EthereumLogIndexes]

\* The records of the out-of-order scenario: block 9 + i, each with its own
\* hash and root; the layer-1 blocks of their anchors alternate, so the layer-1
\* order is not the layer-2 order.
OrderedInputs ==
    { [block_number |-> 9 + i,
       block_hash |-> OrderedBlockHash(i),
       global_root |-> OrderedGlobalRoot(i),
       eth_transaction |-> IF i % 2 = 1 THEN TxHashB ELSE TxHashA,
       eth_log_index |-> 98 + i] : i \in 1..MaxOrdered }

\* named_params!: the row the statement binds.
GlobalStateParams(a) ==
    [starknet_block_number |-> a.block_number,
     starknet_block_hash |-> to_be_bytes(a.block_hash),
     starknet_global_root |-> to_be_bytes(a.global_root),
     ethereum_transaction_hash |-> a.eth_transaction,
     ethereum_log_index |-> a.eth_log_index]

\* Mutant: starknet_block_number is UNIQUE as well.
GlobalStateConflictOnNumber(gs, row) ==
    \E i \in 1..Len(gs) :
        \/ gs[i].starknet_block_hash = row.starknet_block_hash
        \/ gs[i].starknet_block_number = row.starknet_block_number

\* starknet_block_hash BLOB PRIMARY KEY: a stored row has the same key.
GlobalStateConflict(gs, row) ==
    \E i \in 1..Len(gs) : gs[i].starknet_block_hash = row.starknet_block_hash

\* Mutant: the foreign key is not enforced.
GlobalStateForeignKeyOff(txs, row) == TRUE

\* FOREIGN KEY(ethereum_transaction_hash) REFERENCES ethereum_transactions.
GlobalStateForeignKey(txs, row) ==
    \E t \in txs : t.ethereum_transaction_hash = row.ethereum_transaction_hash

\* Mutant: INSERT OR REPLACE, the stored row gives way to the new one.
InsertGlobalStateOrReplace(tabs, txs, gs, row) ==
    IF ~Exists(tabs, "global_state") \/ ~Exists(tabs, "ethereum_transactions")
    THEN [rows |-> gs, result |-> Err("NoSuchTable")]
    ELSE IF ~GlobalStateForeignKey(txs, row)
    THEN [rows |-> gs, result |-> Err("ForeignKey")]
    ELSE [rows |-> Append(SelectSeq(gs, LAMBDA g :
                        g.starknet_block_hash # row.starknet_block_hash), row),
          result |-> Ok(<<>>)]

\* Mutant: the foreign key is checked before the conflict is looked at.
InsertGlobalStateForeignKeyFirst(tabs, txs, gs, row) ==
    IF ~Exists(tabs, "global_state") \/ ~Exists(tabs, "ethereum_transactions")
    THEN [rows |-> gs, result |-> Err("NoSuchTable")]
    ELSE IF ~GlobalStateForeignKey(txs, row)
    THEN [rows |-> gs, result |-> Err("ForeignKey")]
    ELSE IF GlobalStateConflict(gs, row)
    THEN [rows |-> gs, result |-> Ok(<<>>)]
    ELSE [rows |-> Append(gs, row), result |-> Ok(<<>>)]

\* INSERT INTO global_state ... ON CONFLICT DO NOTHING: a row whose key is
\* stored is skipped before the foreign key is looked at.
InsertGlobalState(tabs, txs, gs, row) ==
    IF ~Exists(tabs, "global_state") \/ ~Exists(tabs, "ethereum_transactions")
    THEN [rows |-> gs, result |-> Err("NoSuchTable")]
    ELSE IF GlobalStateConflict(gs, row)
    THEN [rows |-> gs, result |-> Ok(<<>>)]
    ELSE IF ~GlobalStateForeignKey(txs, row)
    THEN [rows |-> gs, result |-> Err("ForeignKey")]
    ELSE [rows |-> Append(gs, row), result |-> Ok(<<>>)]

\* Mutant: the insert first writes the transaction it references into
\* ethereum_transactions.
GlobalStateInsertWithAnchor(a) ==
    LET txs == ethereum_transactions \cup
                 {[ethereum_transaction_hash |-> a.eth_transaction,
                   ethereum_transaction_index |-> 0,
                   ethereum_block_hash |-> a.eth_transaction]}
        r == InsertGlobalState(tables, txs, global_state, GlobalStateParams(a)) IN
    /\ global_state' = r.rows
    /\ ethereum_transactions' = IF Exists(tables, "ethereum_transactions")
                                THEN txs ELSE ethereum_transactions
    /\ last' = [op |-> "GlobalStateTable::insert", args |-> a, result |-> r.result]
    /\ UNCHANGED <<tables, ethereum_blocks, contract_states, committed>>

GlobalStateInsert(a) ==
    LET r == InsertGlobalState(tables, ethereum_transactions, global_state,
                               GlobalStateParams(a)) IN
    /\ global_state' = r.rows
    /\ last' = [op |-> "GlobalStateTable::insert", args |-> a, result |-> r.result]
    /\ UNCHANGED <<tables, ethereum_blocks, ethereum_transactions, contract_states>>
    /\ committed' = AfterStatement(committed,
                        DatabaseOf(tables', ethereum_blocks', ethereum_transactions',
                                   global_state', contract_states'))

\* Mutant: the join with ethereum_transactions does not match the transaction
\* hash (every transaction pairs with every global_state row).
CrossJoin(gs, txs, blks) ==
    { [rowid |-> x[1],
       starknet_block_number |-> gs[x[1]].starknet_block_number,
       starknet_block_hash |-> gs[x[1]].starknet_block_hash,
       starknet_global_root |-> gs[x[1]].starknet_global_root,
       ethereum_transaction_hash |-> gs[x[1]].ethereum_transaction_hash,
       ethereum_log_index |-> gs[x[1]].ethereum_log_index,
       ethereum_transaction_index |-> x[2].ethereum_transaction_index,
       ethereum_block_hash |-> x[2].ethereum_block_hash,
       ethereum_block_number |-> x[3].ethereum_block_number]
      : x \in { y \in (1..Len(gs)) \X txs \X blks :
                  y[3].ethereum_block_hash = y[2].ethereum_block_hash } }

\* SELECT * FROM global_state NATURAL JOIN ethereum_transactions NATURAL JOIN
\* ethereum_blocks: the rows that agree on ethereum_transaction_hash and on
\* ethereum_block_hash, each with the rowid of its global_state row.
NaturalJoin(gs, txs, blks) ==
    { [rowid |-> i,
       starknet_block_number |-> gs[i].starknet_block_number,
       starknet_block_hash |-> gs[i].starknet_block_hash,
       starknet_global_root |-> gs[i].starknet_global_root,
       ethereum_transaction_hash |-> gs[i].ethereum_transaction_hash,
       ethereum_log_index |-> gs[i].ethereum_log_index,
       ethereum_transaction_index |-> t.ethereum_transaction_index,
       ethereum_block_hash |-> t.ethereum_block_hash,
       ethereum_block_number |-> b.ethereum_block_number]
      : <<i, t, b>> \in
          { x \in (1..Len(gs)) \X txs \X blks :
              /\ x[2].ethereum_transaction_hash = gs[x[1]].ethereum_transaction_hash
              /\ x[3].ethereum_block_hash = x[2].ethereum_block_hash } }

\* Mutant: ORDER BY starknet_block_number ASC.
OrderByBlockNumberAscLimit1(joined) ==
    { j \in joined :
        \A k \in joined : k.starknet_block_number >= j.starknet_block_number }

\* Mutant: no ORDER BY, the first row in rowid order.
OrderByRowidLimit1(joined) ==
    { j \in joined : \A k \in joined : k.rowid >= j.rowid }

\* Mutant: ORDER BY ethereum_block_number DESC, the layer-1 order.
OrderByEthereumBlockNumberDescLimit1(joined) ==
    { j \in joined :
        \A k \in joined : k.ethereum_block_number <= j.ethereum_block_number }

\* ORDER BY starknet_block_number DESC LIMIT 1: the rows the statement may
\* return first (any of the rows with the largest number).
OrderByBlockNumberDescLimit1(joined) ==
    { j \in joined :
        \A k \in joined : k.starknet_block_number <= j.starknet_block_number }

None == <<>>
Some(v) == <<v>>

\* The closure of row.map(..): the stored bytes parsed into a GlobalStateRecord.
ParseGlobalStateRecord(j) ==
    LET block_hash == from_be_slice(j.starknet_block_hash)
        global_root == from_be_slice(j.starknet_global_root)
        eth_tx_hash == vec_to_h256(j.ethereum_transaction_hash)
        eth_block_hash == vec_to_h256(j.ethereum_block_hash)
    IN  IF block_hash.status = "Err"
        THEN Context(block_hash, "Failed to parse StarkNet block hash")
        ELSE IF global_root.status = "Err"
        THEN Context(global_root, "Failed to parse StarkNet global state root")
        ELSE IF eth_tx_hash.status = "Err"
        THEN Context(eth_tx_hash, "Failed to parse Ethereum transaction hash")
        ELSE IF eth_block_hash.status = "Err"
        THEN Context(eth_block_hash, "Failed to parse Ethereum block hash")
        ELSE Ok(Some([block_number |-> j.starknet_block_number,
                      block_hash |-> block_hash.value,
                      global_root |-> global_root.value,
                      eth_block_number |-> j.ethereum_block_number,
                      eth_block_hash |-> eth_block_hash.value,
                      eth_tx_hash |-> eth_tx_hash.value,
                      eth_tx_index |-> j.ethereum_transaction_index,
                      eth_log_index |-> j.ethereum_log_index]))

\* Mutant: query_row without .optional(), no row is an error.
QueryRow(rows) ==
    IF rows = {} THEN {Err("QueryReturnedNoRows")}
    ELSE {ParseGlobalStateRecord(j) : j \in rows}

\* query_row(..).optional(): no row is Ok(None), not an error.
QueryRowOptional(rows) ==
    IF rows = {} THEN {Ok(None)} ELSE {ParseGlobalStateRecord(j) : j \in rows}

\* The results GlobalStateTable::get_latest_state may return.
LatestState(tabs, gs, txs, blks) ==
    IF \/ ~Exists(tabs, "global_state")
       \/ ~Exists(tabs, "ethereum_transactions")
       \/ ~Exists(tabs, "ethereum_blocks")
    THEN {Err("NoSuchTable")}
    ELSE QueryRowOptional(OrderByBlockNumberDescLimit1(NaturalJoin(gs, txs, blks)))

GetLatestState ==
    /\ \E r \in LatestState(tables, global_state, ethereum_transactions,
                            ethereum_blocks) :
          last' = [op |-> "GlobalStateTable::get_latest_state", args |-> NoArgs,
                   result |-> r]
    /\ UNCHANGED <<tables, ethereum_blocks, ethereum_transactions, global_state,
                   contract_states>>
    /\ UNCHANGED committed

----------------------------------------------------------------------------
(* ContractsStateTable *)

\* The arguments of ContractsStateTable::insert.
ContractStateInputs ==
    [state_hash : ContractStateHashes, hash : ContractHashes, root : ContractRoots]

\* Mutant: the root is bound without its leading byte.
ContractStateParamsTruncated(a) ==
    [state_hash |-> to_be_bytes(a.state_hash),
     hash |-> to_be_bytes(a.hash),
     root |-> Tail(to_be_bytes(a.root))]

ContractStateParams(a) ==
    [state_hash |-> to_be_bytes(a.state_hash),
     hash |-> to_be_bytes(a.hash),
     root |-> to_be_bytes(a.root)]

\* Mutant: INSERT OR IGNORE, a stored key is skipped without an error.
InsertContractStateOrIgnore(tabs, cs, row) ==
    IF ~Exists(tabs, "contract_states")
    THEN [rows |-> cs, result |-> Err("NoSuchTable")]
    ELSE IF \E c \in cs : c.state_hash = row.state_hash
    THEN [rows |-> cs, result |-> Ok(<<>>)]
    ELSE [rows |-> cs \cup {row}, result |-> Ok(<<>>)]

\* Mutant: INSERT OR REPLACE, the stored row gives way to the new one.
InsertContractStateOrReplace(tabs, cs, row) ==
    IF ~Exists(tabs, "contract_states")
    THEN [rows |-> cs, result |-> Err("NoSuchTable")]
    ELSE [rows |-> {c \in cs : c.state_hash # row.state_hash} \cup {row},
          result |-> Ok(<<>>)]

\* INSERT INTO contract_states: state_hash BLOB PRIMARY KEY, no conflict clause.
InsertContractState(tabs, cs, row) ==
    IF ~Exists(tabs, "contract_states")
    THEN [rows |-> cs, result |-> Err("NoSuchTable")]
    ELSE IF \E c \in cs : c.state_hash = row.state_hash
    THEN [rows |-> cs, result |-> Err("PrimaryKey")]
    ELSE [rows |-> cs \cup {row}, result |-> Ok(<<>>)]

ContractsStateInsert(a) ==
    LET r == InsertContractState(tables, contract_states, ContractStateParams(a)) IN
    /\ contract_states' = r.rows
    /\ last' = [op |-> "ContractsStateTable::insert", args |-> a, result |-> r.result]
    /\ UNCHANGED <<tables, ethereum_blocks, ethereum_transactions, global_state>>
    /\ committed' = AfterStatement(committed,
                        DatabaseOf(tables', ethereum_blocks', ethereum_transactions',
                                   global_state', contract_states'))

\* Mutant: SELECT hash, the contract hash instead of the root.
RootOfHashColumn(tabs, cs, state_hash) ==
    IF ~Exists(tabs, "contract_states") THEN {Err("NoSuchTable")}
    ELSE LET found == {c.hash : c \in {c \in cs : c.state_hash = to_be_bytes(state_hash)}}
         IN  IF found = {} THEN {Ok(None)}
             ELSE { IF Len(bytes) # HASH_LEN THEN Err("Decode")
                    ELSE LET root == from_be_bytes(bytes) IN
                         IF root.status = "Err" THEN root ELSE Ok(Some(root.value))
                    : bytes \in found }

\* Mutant: no WHERE clause, the root of any stored row.
RootOfAnyRow(tabs, cs, state_hash) ==
    IF ~Exists(tabs, "contract_states") THEN {Err("NoSuchTable")}
    ELSE LET found == {c.root : c \in cs}
         IN  IF found = {} THEN {Ok(None)}
             ELSE { IF Len(bytes) # HASH_LEN THEN Err("Decode")
                    ELSE LET root == from_be_bytes(bytes) IN
                         IF root.status = "Err" THEN root ELSE Ok(Some(root.value))
                    : bytes \in found }

\* Mutant: no length check, the stored bytes go through from_be_slice.
RootOfNoLengthCheck(tabs, cs, state_hash) ==
    IF ~Exists(tabs, "contract_states") THEN {Err("NoSuchTable")}
    ELSE LET found == {c.root : c \in {c \in cs : c.state_hash = to_be_bytes(state_hash)}}
         IN  IF found = {} THEN {Ok(None)}
             ELSE { LET root == from_be_slice(bytes) IN
                    IF root.status = "Err" THEN root ELSE Ok(Some(root.value))
                    : bytes \in found }

\* ContractsStateTable::get_root.
RootOf(tabs, cs, state_hash) ==
    IF ~Exists(tabs, "contract_states") THEN {Err("NoSuchTable")}
    ELSE LET found == {c.root : c \in {c \in cs : c.state_hash = to_be_bytes(state_hash)}}
         IN  IF found = {} THEN {Ok(None)}
             ELSE { IF Len(bytes) # HASH_LEN THEN Err("Decode")
                    ELSE LET root == from_be_bytes(bytes) IN
                         IF root.status = "Err" THEN root ELSE Ok(Some(root.value))
                    : bytes \in found }

\* Mutant: get-or-create, a state hash without a row gets an empty one.
GetRootOrCreate(state_hash) ==
    /\ \E r \in RootOf(tables, contract_states, state_hash) :
          /\ last' = [op |-> "ContractsStateTable::get_root",
                      args |-> [state_hash |-> state_hash], result |-> r]
          /\ contract_states' =
                IF r = Ok(None)
                THEN contract_states \cup
                       {[state_hash |-> to_be_bytes(state_hash),
                         hash |-> to_be_bytes(state_hash),
                         root |-> to_be_bytes(state_hash)]}
                ELSE contract_states
    /\ UNCHANGED <<tables, ethereum_blocks, ethereum_transactions, global_state,
                   committed>>

GetRoot(state_hash) ==
    /\ \E r \in RootOf(tables, contract_states, state_hash) :
          last' = [op |-> "ContractsStateTable::get_root",
                   args |-> [state_hash |-> state_hash], result |-> r]
    /\ UNCHANGED <<tables, ethereum_blocks, ethereum_transactions, global_state,
                   contract_states>>
    /\ UNCHANGED committed

----------------------------------------------------------------------------
(* Specifications *)

\* A freshly opened database: no table, no call made yet.
Init ==
    /\ tables = {}
    /\ ethereum_blocks = {}
    /\ ethereum_transactions = {}
    /\ global_state = <<>>
    /\ contract_states = {}
    /\ last = [op |-> "open", args |-> NoArgs, result |-> Ok(<<>>)]
    /\ committed = DatabaseOf({}, {}, {}, <<>>, {})

\* The global state index and the Ethereum tables it references.
Next ==
    \/ EthereumMigrate
    \/ \E v \in SchemaVersions : Migrate(v)
    \/ \E b \in EthereumBlocks : EthereumBlocksInsert(b)
    \/ \E t \in EthereumTransactions : EthereumTransactionsInsert(t)
    \/ \E a \in GlobalStateInputs : GlobalStateInsert(a)
    \/ GetLatestState

Spec == Init /\ [][Next]_vars

\* The contract state store.
NextContracts ==
    \/ \E v \in SchemaVersions : Migrate(v)
    \/ \E a \in ContractStateInputs : ContractsStateInsert(a)
    \/ \E h \in ContractStateHashes : GetRoot(h)

SpecContracts == Init /\ [][NextContracts]_vars

\* The out-of-order scenario: the records of OrderedInputs, inserted in any
\* order once their anchors are stored.
NextOrdered ==
    \/ EthereumMigrate
    \/ Migrate(DB_VERSION_EMPTY)
    \/ \E b \in EthereumBlocks : EthereumBlocksInsert(b)
    \/ \E t \in EthereumTransactions : EthereumTransactionsInsert(t)
    \/ \E a \in OrderedInputs : GlobalStateInsert(a)
    \/ GetLatestState

SpecOrdered == Init /\ [][NextOrdered]_vars

\* The records of OrderedInputs and a second observation of the first block
\* hash that differs in every other column.
StoreInputs ==
    OrderedInputs \cup
      { [block_number |-> MaxBlockNumber,
         block_hash |-> OrderedBlockHash(1),
         global_root |-> 37745,
         eth_transaction |-> TxHashA,
         eth_log_index |-> 31004] }

\* Both stores on one database: the records of StoreInputs, the contract
\* states, and every migration.
NextStore ==
    \/ EthereumMigrate
    \/ \E v \in SchemaVersions : Migrate(v)
    \/ \E b \in EthereumBlocks : EthereumBlocksInsert(b)
    \/ \E t \in EthereumTransactions : EthereumTransactionsInsert(t)
    \/ \E a \in StoreInputs : GlobalStateInsert(a)
    \/ GetLatestState
    \/ \E a \in ContractStateInputs : ContractsStateInsert(a)
    \/ \E h \in ContractStateHashes : GetRoot(h)

SpecStore == Init /\ [][NextStore]_vars

\* The byte strings a stored BLOB column may hold when the database file was
\* not written by this code alone: a field element, 32 bytes that are no field
\* element, one byte short, one byte long, and no byte at all.
StoredBlobs ==
    { BeBytes32[291],
      TxHashB,
      Tail(BeBytes32[291]),
      <<0>> \o BeBytes32[291],
      <<>> }

\* A migrated database read back from disk: one global_state row with its
\* anchor and one contract_states row, their BLOB columns holding any of
\* StoredBlobs.
InitStored ==
    \E block_hash, global_root, tx_hash, eth_block_hash, root \in StoredBlobs :
        /\ tables = {"ethereum_blocks", "ethereum_transactions", "global_state",
                     "contract_states"}
        /\ ethereum_blocks =
              {[ethereum_block_hash |-> eth_block_hash, ethereum_block_number |-> 2003]}
        /\ ethereum_transactions =
              {[ethereum_transaction_hash |-> tx_hash,
                ethereum_transaction_index |-> 84,
                ethereum_block_hash |-> eth_block_hash]}
        /\ global_state =
              <<[starknet_block_number |-> 10,
                 starknet_block_hash |-> block_hash,
                 starknet_global_root |-> global_root,
                 ethereum_transaction_hash |-> tx_hash,
                 ethereum_log_index |-> 99]>>
        /\ contract_states =
              {[state_hash |-> BeBytes32[2748], hash |-> BeBytes32[291], root |-> root]}
        /\ last = [op |-> "open", args |-> NoArgs, result |-> Ok(<<>>)]
        /\ committed = DatabaseOf(tables, ethereum_blocks, ethereum_transactions,
                                  global_state, contract_states)

\* The reads of the stored database.
NextStored ==
    \/ GetLatestState
    \/ \E h \in ContractStateHashes : GetRoot(h)

SpecStored == InitStored /\ [][NextStored]_vars

----------------------------------------------------------------------------
(* The caller's transaction and a second connection *)

\* Transaction::commit: the transaction's view becomes the committed database
\* and the next transaction starts from it.
Commit ==
    /\ committed # DatabaseOf(tables, ethereum_blocks, ethereum_transactions,
                              global_state, contract_states)
    /\ committed' = DatabaseOf(tables, ethereum_blocks, ethereum_transactions,
                               global_state, contract_states)
    /\ last' = [op |-> "commit", args |-> NoArgs, result |-> Ok(<<>>)]
    /\ UNCHANGED <<tables, ethereum_blocks, ethereum_transactions, global_state,
                   contract_states>>

\* The transaction is dropped without a commit (an error return, or the
\* process stops): the next transaction starts from the committed database.
Rollback ==
    /\ committed # DatabaseOf(tables, ethereum_blocks, ethereum_transactions,
                              global_state, contract_states)
    /\ tables' = committed.tables
    /\ ethereum_blocks' = committed.ethereum_blocks
    /\ ethereum_transactions' = committed.ethereum_transactions
    /\ global_state' = committed.global_state
    /\ contract_states' = committed.contract_states
    /\ last' = [op |-> "rollback", args |-> NoArgs, result |-> Ok(<<>>)]
    /\ UNCHANGED committed

\* Mutant: the other connection reads what the open transaction has written.
ReaderViewUncommitted(durable, view) == view

\* What a transaction of another connection reads while the writer's
\* transaction is open.
ReaderView(durable, view) == durable

\* get_latest_state on a transaction of another connection.
ReaderGetLatestState ==
    LET v == ReaderView(committed,
                        DatabaseOf(tables, ethereum_blocks, ethereum_transactions,
                                   global_state, contract_states)) IN
    /\ \E r \in LatestState(v.tables, v.global_state, v.ethereum_transactions,
                            v.ethereum_blocks) :
          last' = [op |-> "reader::get_latest_state", args |-> NoArgs, result |-> r]
    /\ UNCHANGED <<tables, ethereum_blocks, ethereum_transactions, global_state,
                   contract_states, committed>>

\* get_root on a transaction of another connection.
ReaderGetRoot(state_hash) ==
    LET v == ReaderView(committed,
                        DatabaseOf(tables, ethereum_blocks, ethereum_transactions,
                                   global_state, contract_states)) IN
    /\ \E r \in RootOf(v.tables, v.contract_states, state_hash) :
          last' = [op |-> "reader::get_root",
                   args |-> [state_hash |-> state_hash], result |-> r]
    /\ UNCHANGED <<tables, ethereum_blocks, ethereum_transactions, global_state,
                   contract_states, committed>>

\* The records and contract states of the blocks up to MaxBlockNumber.
TxnGlobalInputs == {a \in OrderedInputs : a.block_number <= MaxBlockNumber}

TxnContractInputs == {a \in ContractStateInputs : a.hash = 291 /\ a.root = 3567}

\* A writer that migrates, writes anchors, contract states and global state
\* on its transaction and commits or drops it, and a reader on another
\* connection.
NextTxn ==
    \/ EthereumMigrate
    \/ Migrate(DB_VERSION_EMPTY)
    \/ \E b \in EthereumBlocks : EthereumBlocksInsert(b)
    \/ \E t \in EthereumTransactions : EthereumTransactionsInsert(t)
    \/ \E a \in TxnContractInputs : ContractsStateInsert(a)
    \/ \E a \in TxnGlobalInputs : GlobalStateInsert(a)
    \/ Commit
    \/ Rollback
    \/ ReaderGetLatestState
    \/ \E h \in ContractStateHashes : ReaderGetRoot(h)

SpecTxn == Init /\ [][NextTxn]_vars

----------------------------------------------------------------------------
(* The v07 simulate_transactions endpoint *)

\* The contexts of the tests: the storage of Starknet 0.13.1 and the default
\* test context.
RpcContexts == {"storage_0_13_1", "test_context"}

BlockIds == {"Number(last)", "Number(unknown)", "Latest"}

SimulationFlags == {"SkipValidate", "SkipFeeCharge"}

TransactionLists ==
    { <<>>,
      <<"deploy_account">>,
      <<"declare">>,
      <<"declare", "universal_deployer">>,
      <<"declare", "universal_deployer", "invoke">> }

SimulateTransactionInputs ==
    [block_id : BlockIds,
     transactions : TransactionLists,
     simulation_flags : SUBSET SimulationFlags]

\* The trace v06 reports for one transaction: the data availability resources
\* are blob data gas when L1 blob data availability is enabled and calldata
\* gas otherwise, and the fee transfer is left out under SkipFeeCharge.
SimulatedTransaction(context, tx, flags, l1_blob_data_availability) ==
    [transaction |-> tx,
     starknet_version |-> context,
     validated |-> "SkipValidate" \notin flags,
     fee_transfer |-> "SkipFeeCharge" \notin flags,
     data_availability |->
        IF l1_blob_data_availability = "Enabled" THEN "l1_data_gas" ELSE "l1_gas"]

\* v06::simulate_transactions_impl: its result for a context, an input and
\* the data availability mode.
simulate_transactions_impl(context, input, l1_blob_data_availability) ==
    IF input.block_id = "Number(unknown)" THEN Err("BlockNotFound")
    ELSE IF /\ context = "test_context"
            /\ \E i \in 1..Len(input.transactions) :
                  input.transactions[i] = "universal_deployer"
    THEN Err("TransactionExecutionError")
    ELSE Ok([i \in 1..Len(input.transactions) |->
               SimulatedTransaction(context, input.transactions[i],
                                    input.simulation_flags,
                                    l1_blob_data_availability)])

\* Mutant: the endpoint calls v06 with L1 blob data availability Disabled, as
\* the v06 endpoint does.
simulate_transactions_disabled(context, input) ==
    LET call == [fn |-> "v06::simulate_transactions_impl",
                 context |-> context,
                 input |-> input,
                 l1_blob_data_availability |-> "Disabled"] IN
    /\ last' = [op |-> "v07::simulate_transactions",
                args |-> [context |-> context, input |-> input],
                result |-> simulate_transactions_impl(
                              call.context, call.input,
                              call.l1_blob_data_availability),
                calls |-> <<call>>]
    /\ UNCHANGED <<tables, ethereum_blocks, ethereum_transactions, global_state,
                   contract_states, committed>>

\* v07 simulate_transactions: one call of v06::simulate_transactions_impl,
\* whose result is returned; the call is recorded with its arguments.
simulate_transactions(context, input) ==
    LET call == [fn |-> "v06::simulate_transactions_impl",
                 context |-> context,
                 input |-> input,
                 l1_blob_data_availability |-> "Enabled"] IN
    /\ last' = [op |-> "v07::simulate_transactions",
                args |-> [context |-> context, input |-> input],
                result |-> simulate_transactions_impl(
                              call.context, call.input,
                              call.l1_blob_data_availability),
                calls |-> <<call>>]
    /\ UNCHANGED <<tables, ethereum_blocks, ethereum_transactions, global_state,
                   contract_states, committed>>

NextSimulate ==
    \E context \in RpcContexts, input \in SimulateTransactionInputs :
        simulate_transactions(context, input)

SpecSimulate == Init /\ [][NextSimulate]_vars

----------------------------------------------------------------------------
(* Properties *)

InsertCall == last.op = "GlobalStateTable::insert"
LatestCall == last.op = "GlobalStateTable::get_latest_state"
ContractsInsertCall == last.op = "ContractsStateTable::insert"

\* The global_state rows stored under a block hash.
RowsOfBlockHash(gs, block_hash) ==
    { i \in 1..Len(gs) : gs[i].starknet_block_hash = BeBytes32[block_hash] }

\* The transaction hash has a row in ethereum_transactions.
AnchorStored(txs, tx_hash) ==
    \E t \in txs : t.ethereum_transaction_hash = tx_hash

\* The stored row carries exactly the arguments of an insert call.
RowIsCall(row, a) ==
    /\ row.starknet_block_hash = BeBytes32[a.block_hash]
    /\ row.starknet_block_number = a.block_number
    /\ row.starknet_global_root = BeBytes32[a.global_root]
    /\ row.ethereum_transaction_hash = a.eth_transaction
    /\ row.ethereum_log_index = a.eth_log_index

\* The record reports exactly the arguments of an insert call.
RecordIsCall(rec, a) ==
    /\ rec.block_hash = a.block_hash
    /\ rec.block_number = a.block_number
    /\ rec.global_root = a.global_root
    /\ rec.eth_tx_hash = a.eth_transaction
    /\ rec.eth_log_index = a.eth_log_index

\* The record is the stored row joined with its anchor.
RecordIsRow(rec, row) ==
    /\ BeBytes32[rec.block_hash] = row.starknet_block_hash
    /\ rec.block_number = row.starknet_block_number
    /\ BeBytes32[rec.global_root] = row.starknet_global_root
    /\ rec.eth_tx_hash = row.ethereum_transaction_hash
    /\ rec.eth_log_index = row.ethereum_log_index
    /\ \E t \in ethereum_transactions :
          /\ t.ethereum_transaction_hash = row.ethereum_transaction_hash
          /\ t.ethereum_transaction_index = rec.eth_tx_index
          /\ t.ethereum_block_hash = rec.eth_block_hash
          /\ \E b \in ethereum_blocks :
                /\ b.ethereum_block_hash = t.ethereum_block_hash
                /\ b.ethereum_block_number = rec.eth_block_number

\* All tables get_latest_state reads exist.
Migrated ==
    {"global_state", "ethereum_transactions", "ethereum_blocks"} \subseteq tables

\* C1: an insert whose block hash is already stored returns Ok and leaves
\* global_state exactly as it was (the stored row keeps its number, root,
\* transaction hash and log index, and no second row appears), whatever the
\* other arguments of the call are.
C1_InsertIdempotentOnConflict ==
    [][ ( /\ last'.op = "GlobalStateTable::insert"
          /\ RowsOfBlockHash(global_state, last'.args.block_hash) # {} )
        => ( /\ last'.result = Ok(<<>>)
             /\ global_state' = global_state
             /\ Cardinality(RowsOfBlockHash(global_state', last'.args.block_hash)) = 1 )
      ]_vars

\* C1 witness: an insert returned Ok although the stored row of its block hash
\* differs from the call in number, root, transaction hash and log index.
C1_Witness ==
    /\ InsertCall
    /\ last.result.status = "Ok"
    /\ \E i \in RowsOfBlockHash(global_state, last.args.block_hash) :
          /\ global_state[i].starknet_block_number # last.args.block_number
          /\ global_state[i].starknet_global_root # BeBytes32[last.args.global_root]
          /\ global_state[i].ethereum_transaction_hash # last.args.eth_transaction
          /\ global_state[i].ethereum_log_index # last.args.eth_log_index

\* C2 as claimed: every insert whose transaction hash has no row in
\* ethereum_transactions fails, and global_state holds no row for the call.
C2_EveryDanglingInsertFails ==
    ( /\ InsertCall
      /\ ~AnchorStored(ethereum_transactions, last.args.eth_transaction) )
    => ( /\ last.result.status = "Err"
         /\ \A i \in 1..Len(global_state) : ~RowIsCall(global_state[i], last.args) )

\* C2 amended: an insert whose block hash is not stored yet and whose
\* transaction hash has no row in ethereum_transactions fails (with the
\* foreign-key error once the tables exist) and leaves global_state unchanged.
C2_DanglingInsertOfNewBlockFails ==
    [][ ( /\ last'.op = "GlobalStateTable::insert"
          /\ RowsOfBlockHash(global_state, last'.args.block_hash) = {}
          /\ ~AnchorStored(ethereum_transactions, last'.args.eth_transaction) )
        => ( /\ last'.result.status = "Err"
             /\ Migrated => last'.result.error = "ForeignKey"
             /\ global_state' = global_state )
      ]_vars

\* C2 witness: an insert failed on the foreign key while the table holds a row
\* of another block.
C2_Witness ==
    /\ InsertCall
    /\ last.result = Err("ForeignKey")
    /\ Len(global_state) = 1
    /\ RowsOfBlockHash(global_state, last.args.block_hash) = {}

\* C3: every row of global_state references a transaction hash that has a row
\* in ethereum_transactions.
C3_EveryRowHasItsAnchor ==
    \A i \in 1..Len(global_state) :
        AnchorStored(ethereum_transactions, global_state[i].ethereum_transaction_hash)

\* C3 witness: two rows are stored, anchored at different transactions.
C3_Witness ==
    /\ Len(global_state) = 2
    /\ global_state[1].ethereum_transaction_hash
         # global_state[2].ethereum_transaction_hash
    /\ InsertCall

\* C4: a record returned by get_latest_state carries the largest block number
\* of global_state and is one of the rows that hold it.
C4_LatestHasMaximalBlockNumber ==
    (LatestCall /\ last.result.status = "Ok" /\ last.result.value # None)
    => LET rec == last.result.value[1] IN
       /\ \A i \in 1..Len(global_state) :
             global_state[i].starknet_block_number <= rec.block_number
       /\ \E i \in 1..Len(global_state) : RecordIsRow(rec, global_state[i])

\* C4 witness: two rows tie on the largest block number and the later-inserted
\* one is returned.
C4_Witness ==
    /\ LatestCall
    /\ Len(global_state) = 2
    /\ global_state[1].starknet_block_number = global_state[2].starknet_block_number
    /\ last.result.value # None
    /\ RecordIsRow(last.result.value[1], global_state[2])

\* The block number of the call is the largest among the rows, and a row holds it.
CallNumberIsMaximum(gs, a) ==
    /\ \A i \in 1..Len(gs) : gs[i].starknet_block_number <= a.block_number
    /\ \E i \in 1..Len(gs) : gs[i].starknet_block_number = a.block_number

\* Every result get_latest_state may return now is a record equal to the call.
LatestIsCall(a) ==
    \A r \in LatestState(tables, global_state, ethereum_transactions, ethereum_blocks) :
        /\ r.status = "Ok"
        /\ r.value # None
        /\ RecordIsCall(r.value[1], a)

\* C5 as claimed: after a successful insert whose transaction is stored, whose
\* record is stored and whose block number is the maximum among all rows,
\* get_latest_state returns a record equal to the inserted one.
C5_LatestIsInsertedWhenMaximum ==
    ( /\ InsertCall
      /\ last.result.status = "Ok"
      /\ AnchorStored(ethereum_transactions, last.args.eth_transaction)
      /\ \E i \in 1..Len(global_state) : RowIsCall(global_state[i], last.args)
      /\ CallNumberIsMaximum(global_state, last.args) )
    => LatestIsCall(last.args)

\* C5 amended: after a successful insert whose record is stored and whose
\* block number is strictly greater than that of every other row,
\* get_latest_state returns a record equal to the inserted one.
C5_LatestIsInsertedWhenStrictMaximum ==
    ( /\ InsertCall
      /\ last.result.status = "Ok"
      /\ \E i \in 1..Len(global_state) :
            /\ RowIsCall(global_state[i], last.args)
            /\ \A k \in 1..Len(global_state) :
                  k # i => global_state[k].starknet_block_number < last.args.block_number )
    => LatestIsCall(last.args)

\* C5 witness: the second row was just inserted with a larger block number
\* than the first.
C5_Witness ==
    /\ InsertCall
    /\ last.result.status = "Ok"
    /\ Len(global_state) = 2
    /\ RowIsCall(global_state[2], last.args)
    /\ global_state[1].starknet_block_number < last.args.block_number
    /\ LatestIsCall(last.args)

\* C6: when the rows have pairwise distinct block numbers, get_latest_state
\* returns the record of the row with the largest block number, wherever that
\* row stands in insertion order and whatever layer-1 block anchors it.
C6_LatestIndependentOfInsertionOrder ==
    ( /\ LatestCall
      /\ Migrated
      /\ Len(global_state) > 0
      /\ \A i, k \in 1..Len(global_state) :
            i # k => global_state[i].starknet_block_number
                       # global_state[k].starknet_block_number )
    => /\ last.result.status = "Ok"
       /\ last.result.value # None
       /\ \E i \in 1..Len(global_state) :
             /\ RecordIsRow(last.result.value[1], global_state[i])
             /\ \A k \in 1..Len(global_state) :
                   global_state[k].starknet_block_number
                     <= global_state[i].starknet_block_number

\* C6 witness: blocks 10, 12, 11 were inserted in that order and the record of
\* block 12 is returned, although block 11 has the later layer-1 anchor.
C6_Witness ==
    /\ LatestCall
    /\ Len(global_state) = 3
    /\ global_state[1].starknet_block_number = 10
    /\ global_state[2].starknet_block_number = 12
    /\ global_state[3].starknet_block_number = 11
    /\ last.result.value # None
    /\ last.result.value[1].block_number = 12
    /\ last.result.value[1].eth_block_number = 2003

\* C7: on a migrated store whose global_state is empty, get_latest_state
\* returns Ok(None).
C7_LatestOfEmptyTableIsNone ==
    (LatestCall /\ Migrated /\ Len(global_state) = 0) => last.result = Ok(None)

\* C7 witness: get_latest_state returned Ok(None) with both anchors stored and
\* no global_state row.
C7_Witness ==
    /\ LatestCall
    /\ Migrated
    /\ Len(global_state) = 0
    /\ Cardinality(ethereum_transactions) = 2
    /\ last.result = Ok(None)

\* C8: the record get_latest_state returns is a global_state row joined with
\* its anchor: transaction hash and log index from the row, transaction index
\* from the transaction of that hash, block hash and number from the block
\* that transaction is in.
C8_LatestIsJoinOfRowAndAnchor ==
    (LatestCall /\ last.result.status = "Ok" /\ last.result.value # None)
    => LET rec == last.result.value[1] IN
       \E i \in 1..Len(global_state) :
          /\ rec.eth_tx_hash = global_state[i].ethereum_transaction_hash
          /\ rec.eth_log_index = global_state[i].ethereum_log_index
          /\ BeBytes32[rec.block_hash] = global_state[i].starknet_block_hash
          /\ \A t \in ethereum_transactions :
                t.ethereum_transaction_hash = rec.eth_tx_hash
                => /\ rec.eth_tx_index = t.ethereum_transaction_index
                   /\ rec.eth_block_hash = t.ethereum_block_hash
          /\ \A b \in ethereum_blocks :
                b.ethereum_block_hash = rec.eth_block_hash
                => rec.eth_block_number = b.ethereum_block_number
          /\ AnchorStored(ethereum_transactions, rec.eth_tx_hash)
          /\ \E b \in ethereum_blocks : b.ethereum_block_hash = rec.eth_block_hash

\* C8 witness: a record anchored at the transaction of index 84 in block 2003
\* is returned while the other transaction and block are stored too.
C8_Witness ==
    /\ LatestCall
    /\ last.result.value # None
    /\ Cardinality(ethereum_transactions) = 2
    /\ Cardinality(ethereum_blocks) = 2
    /\ last.result.value[1].eth_tx_hash = TxHashB
    /\ last.result.value[1].eth_tx_index = 84
    /\ last.result.value[1].eth_block_number = 2003

\* The contract_states rows stored under a state hash.
RowsOfStateHash(cs, state_hash) ==
    { c \in cs : c.state_hash = BeBytes32[state_hash] }

C10_ContractsInsertOfStoredHashIsOk ==
    ( /\ ContractsInsertCall
      /\ RowsOfStateHash(contract_states, last.args.state_hash) # {} )
    => last.result = Ok(<<>>)

RootCall == last.op = "ContractsStateTable::get_root"

\* The contract_states row that carries exactly the arguments of an insert.
ContractRowOfCall(a) ==
    [state_hash |-> BeBytes32[a.state_hash],
     hash |-> BeBytes32[a.hash],
     root |-> BeBytes32[a.root]]

\* The result is Ok(Some(r)) for the value r whose encoding is the bytes.
IsSomeOfBytes(result, bytes) ==
    \E r \in StarkHashes : BeBytes32[r] = bytes /\ result = Ok(Some(r))

\* C11: a successful contract state insert stores the row of its arguments;
\* no step of any store operation removes a stored row or puts another row
\* under its state hash; and get_root of a stored state hash returns Some of
\* the value the root column encodes, not of the hash column. Hence after a
\* successful insert(h, c, r) every later get_root(h) returns Some(r).
C11_RootRoundTrip ==
    [][ /\ ( /\ last'.op = "ContractsStateTable::insert"
             /\ last'.result.status = "Ok" )
           => ContractRowOfCall(last'.args) \in contract_states'
        /\ \A c \in contract_states :
              {d \in contract_states' : d.state_hash = c.state_hash} = {c}
        /\ last'.op = "ContractsStateTable::get_root"
           => \A c \in RowsOfStateHash(contract_states', last'.args.state_hash) :
                 IsSomeOfBytes(last'.result, c.root)
      ]_vars

\* C11 witness: with both state hashes stored, get_root returned the root
\* 0xdef of a row whose contract hash is 0x123, after a global state insert
\* and a failed migration happened on the same database.
C11_Witness ==
    /\ RootCall
    /\ last.result = Ok(Some(3567))
    /\ Cardinality(contract_states) = 2
    /\ Len(global_state) > 0
    /\ \E c \in RowsOfStateHash(contract_states, last.args.state_hash) :
          /\ c.hash = BeBytes32[291]
          /\ c.root = BeBytes32[3567]

\* C12: on a store whose contract_states table exists, get_root of a state
\* hash that has no row returns Ok(None), whichever other state hashes are
\* stored.
C12_RootOfAbsentHashIsNone ==
    ( /\ RootCall
      /\ "contract_states" \in tables
      /\ RowsOfStateHash(contract_states, last.args.state_hash) = {} )
    => last.result = Ok(None)

\* C12 witness: get_root returned None while the other state hash is stored.
C12_Witness ==
    /\ RootCall
    /\ last.result = Ok(None)
    /\ contract_states # {}
    /\ RowsOfStateHash(contract_states, last.args.state_hash) = {}

\* C13: contract_states holds at most one row per state hash; the only change
\* a step makes to it is a successful insert adding the row of its arguments
\* under a state hash that had no row; stored rows are never changed or
\* removed.
C13_ContractStateImmutable ==
    [][ /\ contract_states \subseteq contract_states'
        /\ \A c, d \in contract_states' : c.state_hash = d.state_hash => c = d
        /\ contract_states' # contract_states
           => /\ last'.op = "ContractsStateTable::insert"
              /\ last'.result.status = "Ok"
              /\ RowsOfStateHash(contract_states, last'.args.state_hash) = {}
              /\ contract_states' =
                    contract_states \cup {ContractRowOfCall(last'.args)}
      ]_vars

\* C13 witness: an insert of a stored state hash with another contract hash
\* and another root failed, and the stored row is still the first one.
C13_Witness ==
    /\ ContractsInsertCall
    /\ last.result.status = "Err"
    /\ \E c \in RowsOfStateHash(contract_states, last.args.state_hash) :
          /\ c.hash # BeBytes32[last.args.hash]
          /\ c.root # BeBytes32[last.args.root]

\* C14: no step of any store operation changes or removes a stored row of
\* global_state or contract_states, and neither table ever holds two rows
\* under one key: per key the only transition is absent -> present.
C14_AppendOnly ==
    [][ /\ Len(global_state') >= Len(global_state)
        /\ \A i \in 1..Len(global_state) : global_state'[i] = global_state[i]
        /\ \A i, k \in 1..Len(global_state') :
              global_state'[i].starknet_block_hash
                = global_state'[k].starknet_block_hash => i = k
        /\ contract_states \subseteq contract_states'
        /\ \A c, d \in contract_states' : c.state_hash = d.state_hash => c = d
      ]_vars

\* C14 witness: the first block hash was observed again with another number,
\* root and log index while all records and a contract state are stored, and
\* the stored row is the first observation.
C14_Witness ==
    /\ InsertCall
    /\ last.result.status = "Ok"
    /\ Len(global_state) = MaxOrdered
    /\ contract_states # {}
    /\ \E i \in RowsOfBlockHash(global_state, last.args.block_hash) :
          /\ global_state[i].starknet_block_number # last.args.block_number
          /\ global_state[i].starknet_global_root # BeBytes32[last.args.global_root]

MigrateCall == last.op = "migrate"

StateTables == {"global_state", "contract_states"}

\* No row of any table changes in the step.
RowsUnchanged ==
    UNCHANGED <<ethereum_blocks, ethereum_transactions, global_state, contract_states>>

\* The error a failed global state migration is reported with.
GlobalMigrationError(kind) ==
    [status |-> "Err", error |-> kind,
     context |-> "Failed to migrate the global state table", value |-> <<>>]

\* C15: migrate(EMPTY) on a database that has neither table returns Ok and
\* creates global_state and contract_states, both without rows, touching no
\* other table; the tables stay, and once they exist no insert or read of the
\* two stores fails for a missing table (the global index also needs the
\* anchor tables it references).
C15_MigrateEmptyCreatesBoth ==
    [][ /\ ( /\ last'.op = "migrate"
             /\ last'.args.from_version = DB_VERSION_EMPTY
             /\ tables \cap StateTables = {} )
           => /\ last'.result.status = "Ok"
              /\ tables' = tables \cup StateTables
              /\ global_state' = <<>>
              /\ contract_states' = {}
              /\ RowsUnchanged
        /\ tables \subseteq tables'
        /\ ( /\ StateTables \subseteq tables'
             /\ last'.op \in {"ContractsStateTable::insert",
                              "ContractsStateTable::get_root"} )
           => last'.result.error # "NoSuchTable"
        /\ ( /\ StateTables \cup {"ethereum_transactions", "ethereum_blocks"}
                  \subseteq tables'
             /\ last'.op \in {"GlobalStateTable::insert",
                              "GlobalStateTable::get_latest_state"} )
           => last'.result.error # "NoSuchTable"
      ]_vars

\* C15 witness: migrate(EMPTY) succeeded next to the anchor tables and both
\* tables exist and are empty.
C15_Witness ==
    /\ MigrateCall
    /\ last.args.from_version = DB_VERSION_EMPTY
    /\ last.result.status = "Ok"
    /\ StateTables \cup {"ethereum_transactions"} \subseteq tables
    /\ global_state = <<>>
    /\ contract_states = {}

\* C16: migrate(CURRENT) returns Ok and changes neither the set of tables nor
\* any row.
C16_MigrateCurrentIsNoOp ==
    [][ ( /\ last'.op = "migrate"
          /\ last'.args.from_version = DB_VERSION_CURRENT )
        => /\ last'.result.status = "Ok"
           /\ tables' = tables
           /\ RowsUnchanged
      ]_vars

\* C16 witness: migrate(CURRENT) succeeded on a database whose two tables
\* exist and hold rows.
C16_Witness ==
    /\ MigrateCall
    /\ last.args.from_version = DB_VERSION_CURRENT
    /\ last.result.status = "Ok"
    /\ StateTables \subseteq tables
    /\ Len(global_state) > 0
    /\ contract_states # {}

\* C17: migrate with a version that is neither EMPTY nor CURRENT fails with
\* the unknown-version error of the global state migration (the contracts
\* state migration is not reached) and creates no table and changes no row.
C17_MigrateUnknownVersionFails ==
    [][ ( /\ last'.op = "migrate"
          /\ last'.args.from_version \notin {DB_VERSION_EMPTY, DB_VERSION_CURRENT} )
        => /\ last'.result = GlobalMigrationError("UnknownVersion")
           /\ tables' = tables
           /\ RowsUnchanged
      ]_vars

\* C17 witness: migrate of an unknown version failed on a fresh database, and
\* neither table exists.
C17_Witness ==
    /\ MigrateCall
    /\ last.args.from_version = DB_VERSION_CURRENT + 1
    /\ last.result.status = "Err"
    /\ tables \cap StateTables = {}

\* C18 as stated: a migrate that follows a successful migrate with the same
\* version succeeds and leaves the tables as they were.
C18_MigrateTwiceSucceeds ==
    [][ ( /\ last.op = "migrate"
          /\ last.result.status = "Ok"
          /\ last'.op = "migrate"
          /\ last'.args = last.args )
        => /\ last'.result.status = "Ok"
           /\ tables' = tables
      ]_vars

\* C18: a migrate of EMPTY or CURRENT that follows a successful migrate with
\* the same version, or that runs on a database where an earlier migrate has
\* created the two tables, leaves the tables and all rows as they were; with
\* CURRENT it succeeds, with EMPTY it fails because global_state exists.
C18_MigrateTwiceKeepsTables ==
    [][ ( /\ last'.op = "migrate"
          /\ last'.args.from_version \in {DB_VERSION_EMPTY, DB_VERSION_CURRENT}
          /\ \/ StateTables \subseteq tables
             \/ /\ last.op = "migrate"
                /\ last.result.status = "Ok"
                /\ last'.args = last.args )
        => /\ tables' = tables
           /\ RowsUnchanged
           /\ last'.args.from_version = DB_VERSION_CURRENT
              => last'.result.status = "Ok"
           /\ last'.args.from_version = DB_VERSION_EMPTY
              => last'.result = GlobalMigrationError("TableExists")
      ]_vars

\* C18 witness: migrate(EMPTY) failed on a database that has both tables.
C18_Witness ==
    /\ MigrateCall
    /\ last.args.from_version = DB_VERSION_EMPTY
    /\ last.result = GlobalMigrationError("TableExists")
    /\ StateTables \subseteq tables

\* The bytes are no encoding of a field element: not 32 of them, or not below
\* the modulus.
MalformedFelt(bytes) ==
    \/ Len(bytes) # HASH_LEN
    \/ ~BytesLess(bytes, ModulusBytes)

\* The hash columns of the row get_latest_state selects from a one-row table.
SelectedStarkHashes ==
    {global_state[1].starknet_block_hash, global_state[1].starknet_global_root}

SelectedEthereumHashes ==
    {global_state[1].ethereum_transaction_hash}
      \cup {t.ethereum_block_hash : t \in ethereum_transactions}

\* C19: get_latest_state fails whenever a hash column of the selected row
\* does not hold exactly 32 bytes.
C19_LatestFailsOnWrongLength ==
    ( /\ LatestCall
      /\ Migrated
      /\ Len(global_state) = 1
      /\ \E bytes \in SelectedStarkHashes \cup SelectedEthereumHashes :
            Len(bytes) # HASH_LEN )
    => last.result.status = "Err"

\* C20: get_root of a stored state hash fails with the decode error whenever
\* the stored root is not 32 bytes long or is no field element.
C20_RootFailsOnMalformedRoot ==
    ( /\ RootCall
      /\ \E c \in RowsOfStateHash(contract_states, last.args.state_hash) :
            MalformedFelt(c.root) )
    => /\ last.result.status = "Err"
       /\ last.result.error = "Decode"

\* C20 witness: get_root failed on a stored root that is one byte short.
C20_Witness ==
    /\ RootCall
    /\ last.result.status = "Err"
    /\ \E c \in RowsOfStateHash(contract_states, last.args.state_hash) :
          Len(c.root) = HASH_LEN - 1

\* C21: every hash and root an insert writes is the 32-byte big-endian
\* encoding of its argument, and the value get_root or get_latest_state
\* returns is the one, and for get_root the only one, whose encoding is stored
\* (Ethereum hashes are returned byte for byte): the read gives back exactly
\* the value the insert was given.
C21_ByteRoundTrip ==
    [][ /\ ( /\ last'.op = "ContractsStateTable::insert"
             /\ last'.result.status = "Ok" )
           => /\ ContractRowOfCall(last'.args) \in contract_states'
              /\ Len(ContractRowOfCall(last'.args).root) = HASH_LEN
        /\ ( /\ last'.op = "GlobalStateTable::insert"
             /\ Len(global_state') > Len(global_state) )
           => RowIsCall(global_state'[Len(global_state')], last'.args)
        /\ ( /\ last'.op = "ContractsStateTable::get_root"
             /\ RowsOfStateHash(contract_states', last'.args.state_hash) # {} )
           => /\ last'.result.status = "Ok"
              /\ last'.result.value # None
              /\ \E c \in RowsOfStateHash(contract_states', last'.args.state_hash) :
                    \A v \in StarkHashes :
                       c.root = BeBytes32[v] <=> v = last'.result.value[1]
        /\ ( /\ last'.op = "GlobalStateTable::get_latest_state"
             /\ last'.result.status = "Ok"
             /\ last'.result.value # None )
           => \E i \in 1..Len(global_state') :
                 /\ global_state'[i].starknet_block_hash
                      = BeBytes32[last'.result.value[1].block_hash]
                 /\ global_state'[i].starknet_global_root
                      = BeBytes32[last'.result.value[1].global_root]
                 /\ global_state'[i].ethereum_transaction_hash
                      = last'.result.value[1].eth_tx_hash
      ]_vars

\* C21 witness: get_latest_state returned block hash 0x123 with the root
\* 0x9371 of its first observation while a contract state with root 0xdef is
\* stored.
C21_Witness ==
    /\ LatestCall
    /\ last.result.value # None
    /\ last.result.value[1].block_hash = 291
    /\ last.result.value[1].global_root = 37745
    /\ \E c \in contract_states : c.root = BeBytes32[3567]

\* Every global_state row of the database has its transaction and that
\* transaction's block in the same database.
AnchorsPresent(db) ==
    \A i \in 1..Len(db.global_state) :
        \E t \in db.ethereum_transactions :
            /\ t.ethereum_transaction_hash = db.global_state[i].ethereum_transaction_hash
            /\ \E b \in db.ethereum_blocks :
                  b.ethereum_block_hash = t.ethereum_block_hash

\* C22: the committed database changes only in a commit, which makes all
\* writes of the transaction durable together; no migrate, insert or read
\* commits by itself; dropping the transaction takes the view back to the
\* committed database and persists none of its writes; and the committed
\* database never holds a global_state row without its anchor rows.
C22_BlockCommitsAtomically ==
    [][ /\ committed' # committed
           => /\ last'.op = "commit"
              /\ committed' = DatabaseOf(tables, ethereum_blocks,
                                         ethereum_transactions, global_state,
                                         contract_states)
        /\ last'.op = "rollback"
           => /\ committed' = committed
              /\ committed = DatabaseOf(tables', ethereum_blocks',
                                        ethereum_transactions', global_state',
                                        contract_states')
        /\ AnchorsPresent(committed')
      ]_vars

\* C22 witness: a commit made anchors, contract states and global state rows
\* durable.
C22_Witness ==
    /\ last.op = "commit"
    /\ Len(committed.global_state) > 0
    /\ committed.contract_states # {}
    /\ committed.ethereum_transactions # {}

\* C23: a get_latest_state or get_root on another connection answers from
\* the committed database alone: with the tables committed, get_latest_state
\* returns None when no global_state row is committed and otherwise a
\* committed row of maximal block number, and get_root returns None when no
\* row of the state hash is committed and otherwise its committed root,
\* whatever the open transaction has written.
C23_ReaderSeesCommittedOnly ==
    /\ ( /\ last.op = "reader::get_latest_state"
         /\ {"global_state", "ethereum_transactions", "ethereum_blocks"}
               \subseteq committed.tables )
       => /\ last.result.status = "Ok"
          /\ committed.global_state = <<>> <=> last.result.value = None
          /\ last.result.value # None
             => \E i \in 1..Len(committed.global_state) :
                   /\ committed.global_state[i].starknet_block_hash
                        = BeBytes32[last.result.value[1].block_hash]
                   /\ committed.global_state[i].starknet_block_number
                        = last.result.value[1].block_number
                   /\ \A k \in 1..Len(committed.global_state) :
                         committed.global_state[k].starknet_block_number
                           <= last.result.value[1].block_number
    /\ ( /\ last.op = "reader::get_root"
         /\ "contract_states" \in committed.tables )
       => IF RowsOfStateHash(committed.contract_states, last.args.state_hash) = {}
          THEN last.result = Ok(None)
          ELSE \A c \in RowsOfStateHash(committed.contract_states,
                                        last.args.state_hash) :
                  IsSomeOfBytes(last.result, c.root)

\* C23 witness: the reader got None while the open transaction holds a
\* global_state row, its anchor and a contract state that are not committed.
C23_Witness ==
    /\ last.op = "reader::get_latest_state"
    /\ last.result = Ok(None)
    /\ Len(global_state) > 0
    /\ contract_states # {}
    /\ committed.ethereum_transactions = {}

StoreOperations ==
    {"GlobalStateTable::insert", "GlobalStateTable::get_latest_state",
     "ContractsStateTable::insert", "ContractsStateTable::get_root"}

\* C24: a step of GlobalStateTable::insert, get_latest_state,
\* ContractsStateTable::insert or get_root, successful or failed, leaves the
\* rows of ethereum_transactions and ethereum_blocks as they were.
C24_AnchorStoreNotMutated ==
    [][ last'.op \in StoreOperations
        => /\ ethereum_transactions' = ethereum_transactions
           /\ ethereum_blocks' = ethereum_blocks
      ]_vars

\* C24 witness: a global state insert failed for a missing anchor while the
\* anchor store holds another transaction and its block.
C24_Witness ==
    /\ InsertCall
    /\ last.result.status = "Err"
    /\ last.result.error = "ForeignKey"
    /\ ethereum_transactions # {}
    /\ ethereum_blocks # {}
    /\ ~AnchorStored(ethereum_transactions, last.args.eth_transaction)

\* C25: on a migrated store, an insert whose block hash is not stored and
\* whose anchor is stored returns Ok and appends the row of its arguments,
\* whatever block numbers are stored: an equal, a lower or a non-adjacent
\* number is accepted.
C25_BlockNumberNotConstrained ==
    [][ ( /\ last'.op = "GlobalStateTable::insert"
          /\ {"global_state", "ethereum_transactions"} \subseteq tables
          /\ RowsOfBlockHash(global_state, last'.args.block_hash) = {}
          /\ AnchorStored(ethereum_transactions, last'.args.eth_transaction) )
        => /\ last'.result.status = "Ok"
           /\ Len(global_state') = Len(global_state) + 1
           /\ \A i \in 1..Len(global_state) : global_state'[i] = global_state[i]
           /\ RowIsCall(global_state'[Len(global_state')], last'.args)
      ]_vars

\* C25 witness: block 12 was stored first with no block 10, then two rows of
\* different block hashes were stored under block number 11.
C25_Witness ==
    /\ InsertCall
    /\ last.result.status = "Ok"
    /\ Len(global_state) = 3
    /\ global_state[1].starknet_block_number = 12
    /\ global_state[2].starknet_block_number = 11
    /\ global_state[3].starknet_block_number = 11
    /\ global_state[2].starknet_block_hash # global_state[3].starknet_block_hash

\* C26: an insert whose block hash is stored and whose transaction hash has
\* no row in ethereum_transactions returns Ok and leaves global_state as it
\* was, and every row of global_state still has its transaction stored.
C26_ConflictPrecedesForeignKey ==
    [][ ( /\ last'.op = "GlobalStateTable::insert"
          /\ RowsOfBlockHash(global_state, last'.args.block_hash) # {}
          /\ ~AnchorStored(ethereum_transactions, last'.args.eth_transaction) )
        => /\ last'.result = Ok(<<>>)
           /\ global_state' = global_state
           /\ \A i \in 1..Len(global_state') :
                 AnchorStored(ethereum_transactions',
                              global_state'[i].ethereum_transaction_hash)
      ]_vars

\* C26 witness: an insert of a stored block hash with a transaction hash that
\* is not in ethereum_transactions returned Ok.
C26_Witness ==
    /\ InsertCall
    /\ last.result = Ok(<<>>)
    /\ ~AnchorStored(ethereum_transactions, last.args.eth_transaction)
    /\ \E i \in RowsOfBlockHash(global_state, last.args.block_hash) :
          global_state[i].ethereum_transaction_hash # last.args.eth_transaction

\* The highest block number stored, 0 for an empty table.
HighestBlockNumber(gs) ==
    IF gs = <<>> THEN 0
    ELSE CHOOSE n \in {gs[i].starknet_block_number : i \in 1..Len(gs)} :
            \A i \in 1..Len(gs) : gs[i].starknet_block_number <= n

\* C27: no step of a store operation empties global_state or lowers its
\* highest block number, and every get_latest_state on a migrated store
\* returns None exactly when the table is empty and otherwise a record of the
\* highest block number stored. Hence the block number get_latest_state
\* returns never decreases from one call to a later one, and None is never
\* returned after Some.
C27_LatestIsMonotone ==
    [][ /\ global_state # <<>> => global_state' # <<>>
        /\ HighestBlockNumber(global_state') >= HighestBlockNumber(global_state)
        /\ ( /\ last'.op = "GlobalStateTable::get_latest_state"
             /\ {"global_state", "ethereum_transactions", "ethereum_blocks"}
                   \subseteq tables' )
           => /\ last'.result.status = "Ok"
              /\ global_state' = <<>> <=> last'.result.value = None
              /\ last'.result.value # None
                 => last'.result.value[1].block_number
                      = HighestBlockNumber(global_state')
      ]_vars

\* C27 witness: get_latest_state returned block 12 after block 10 was stored
\* as the last row.
C27_Witness ==
    /\ LatestCall
    /\ Len(global_state) = 3
    /\ global_state[3].starknet_block_number = 10
    /\ global_state[1].starknet_block_number = 12
    /\ last.result.value # None
    /\ last.result.value[1].block_number = 12

\* C28: on a migrated store get_latest_state returns Some whenever
\* global_state has a row (every stored row survives the join with its
\* anchor), and returns None only when global_state has no rows.
C28_LatestIsSomeWhenNonEmpty ==
    ( /\ LatestCall
      /\ Migrated )
    => /\ Len(global_state) > 0
          => /\ last.result.status = "Ok"
             /\ last.result.value # None
       /\ last.result = Ok(None) => global_state = <<>>

\* C28 witness: with one row stored and only its own anchor in the anchor
\* store, get_latest_state returned that row.
C28_Witness ==
    /\ LatestCall
    /\ Len(global_state) = 1
    /\ Cardinality(ethereum_transactions) = 1
    /\ Cardinality(ethereum_blocks) = 1
    /\ last.result.status = "Ok"
    /\ last.result.value # None
    /\ BeBytes32[last.result.value[1].block_hash]
         = global_state[1].starknet_block_hash

\* C29: a step of get_latest_state or get_root changes no table and no row;
\* a step of GlobalStateTable::insert leaves contract_states as it was and a
\* step of ContractsStateTable::insert leaves global_state as it was, and
\* neither creates or drops a table.
C29_ReadsAndInsertsKeepOtherTables ==
    [][ /\ last'.op \in {"GlobalStateTable::get_latest_state",
                         "ContractsStateTable::get_root"}
           => /\ tables' = tables
              /\ global_state' = global_state
              /\ contract_states' = contract_states
              /\ ethereum_transactions' = ethereum_transactions
              /\ ethereum_blocks' = ethereum_blocks
        /\ last'.op = "GlobalStateTable::insert"
           => /\ tables' = tables
              /\ contract_states' = contract_states
        /\ last'.op = "ContractsStateTable::insert"
           => /\ tables' = tables
              /\ global_state' = global_state
      ]_vars

\* C29 witness: get_root found no row for its state hash while global_state
\* and contract_states both hold rows.
C29_Witness ==
    /\ RootCall
    /\ last.result = Ok(None)
    /\ Len(global_state) > 0
    /\ Cardinality(contract_states) = 1

\* C30: a call of the v07 endpoint makes exactly one call of
\* v06::simulate_transactions_impl, with the context and the input it was
\* given and with L1 blob data availability Enabled, and returns that call's
\* result, an output or an error, as it is.
C30_SimulateForwardsToV06 ==
    last.op = "v07::simulate_transactions"
    => /\ Len(last.calls) = 1
       /\ last.calls[1].fn = "v06::simulate_transactions_impl"
       /\ last.calls[1].context = last.args.context
       /\ last.calls[1].input = last.args.input
       /\ last.calls[1].l1_blob_data_availability = "Enabled"
       /\ last.result = simulate_transactions_impl(last.args.context,
                                                  last.args.input, "Enabled")

\* C30 witness: declare, deploy and invoke on the 0.13.1 storage returned
\* three traces with blob data gas.
C30_Witness ==
    /\ last.op = "v07::simulate_transactions"
    /\ last.args.context = "storage_0_13_1"
    /\ last.args.input.simulation_flags = {}
    /\ last.result.status = "Ok"
    /\ Len(last.result.value) = 3
    /\ last.result.value[3].transaction = "invoke"
    /\ last.result.value[3].data_availability = "l1_data_gas"

====
